---------------------------- MODULE Spec2Model ----------------------------
(***************************************************************************)
(* The IOMMU DMA-mapping page cache of arch/powerpc/kernel/iommu-cache.c   *)
(* (the revision at lines 408-894 of the file: one FIFO, an unmap buffer). *)
(*                                                                         *)
(* Memory is modelled at pointer level: every iommu_pagecache_entry lives  *)
(* in a slot (its address), kmalloc hands out any free slot and kfree      *)
(* leaves the slot's bytes as they are.  A thread that is about to         *)
(* dereference a freed slot (or NULL) either goes on with what the slot    *)
(* holds at that moment (stale data, or the entry that reuses the slot) or *)
(* dies with an oops.  Every access to shared memory is one step of the    *)
(* thread that makes it.                                                    *)
(***************************************************************************)
EXTENDS Integers, Naturals, Sequences, FiniteSets, TLC

\* ------------------------------------------------------------- bounds
NThreads   == 2      \* threads of the concurrent specification
MaxEntries == 3      \* slots kmalloc can hand out (besides the sentinel's)
ItSize     == 3      \* tbl->it_size of the one-thread runs: pages of the IOMMU table
ConcItSize == 2      \* tbl->it_size of the two-thread runs
MaxHost    == 1      \* host pages are 0..MaxHost
MaxN       == 2      \* largest npages of a call
MaxCalls   == 4      \* calls of public operations in a one-thread run
ConcCalls  == 2      \* calls of the first thread in a two-thread run; the second makes one
MaxHeld    == 3      \* mappings a driver holds at one time
MaxFail    == 2      \* allocations (kmalloc, xa_store) that fail in a one-thread run
MaxDirect  == 1      \* frees of never-added pages in a one-thread run
PageShift  == 12     \* tbl->it_page_shift

\* -------------------------------------------------- program constants
IOMMU_CACHE_MAX      == 75
IOMMU_CACHE_THRES    == 128
IOMMU_CACHE_REMOVING == 233495534          \* 0x0deadbee
DMA_MAPPING_ERROR    == -1                 \* ~(dma_addr_t)0

NULL     == 0
SENT     == 1                              \* slot of the entry init allocates
Slots    == 1..(MaxEntries + 1)
Threads  == 1..NThreads
HostPages == 0..MaxHost
DmaPages  == 0..(ItSize - 1)
Dirs     == {"BIDIRECTIONAL", "TO_DEVICE"}
UseDirs  == {"TO_DEVICE", "FROM_DEVICE"}
NoPage   == -1                             \* -1UL: cpupage/dmapage of the sentinel

Shl(x)  == x * (2 ^ PageShift)
Shr(x)  == x \div (2 ^ PageShift)

\* DMA_DIR_COMPAT(a, b): the direction a mapping was installed with serves
\* a request for direction b.
DMA_DIR_COMPAT(a, b) == a = b \/ a = "BIDIRECTIONAL"

VARIABLES
    mem,        \* slot -> the bytes of struct iommu_pagecache_entry there
    allocated,  \* slots between kmalloc and kfree
    fifo_add,   \* cache->fifo_add.first
    fifo_del,   \* cache->fifo_del.first
    cpupages,   \* XArray: host page -> entry
    dmapages,   \* XArray: DMA page -> entry
    cachesize,  \* atomic64_t cache->cachesize
    live,       \* FALSE once iommu_pagecache_destroy has torn the XArrays down
    iommu,      \* the IOMMU table: DMA page -> mapped?  (external allocator)
    xunmap,     \* DMA page -> calls of __iommu_free on it since it was mapped
    held,       \* handles <<dmapage, npages>> drivers hold -> how many
    pc,         \* thread -> position in the code
    lv,         \* thread -> its local variables
    hist,       \* slot -> what has happened to the entry there
    uaf,        \* memory not the thread's to touch (a freed slot, past a buffer) was accessed
    early,      \* some add stopped before its last page
    uncached,   \* how frees met DMA pages with no entry: "direct" (never added),
                \* "batch" (put in the unmap buffer), "fallback" (no buffer)
    calls,      \* thread -> public operations it may still call
    fails,      \* allocations that may still fail
    directs,    \* frees of never-added pages the drivers may still make
    it_size     \* tbl->it_size: pages of the IOMMU table

vars == <<mem, allocated, fifo_add, fifo_del, cpupages, dmapages, cachesize,
          live, iommu, xunmap, held, pc, lv, hist, uaf, early, uncached, calls, fails, it_size, directs>>

max_cachesize == (IOMMU_CACHE_MAX * it_size) \div 100

Ranges == {r \in DmaPages \X (1..MaxN) : r[1] + r[2] - 1 \in DmaPages}

NoEntry == [fifo |-> NULL, next_map |-> NULL, dmapage |-> NoPage, cpupage |-> NoPage,
            count |-> 0, direction |-> "NONE"]

\* hist[s] for a slot s: base/np: the add call that made the entry
\* (its first DMA page and npages); claimed: the thread whose
\* atomic_sub_return gave -IOMMU_CACHE_REMOVING on it (0: none);
\* removed: times it went through iommu_pagecache_entry_remove;
\* seq: its rank among the entries put on the FIFO, 1 being the one put
\* there longest ago (0: not on the FIFO).
NoHist == [base |-> NoPage, np |-> 0, claimed |-> 0, removed |-> 0, seq |-> 0]

\* Entry s leaves the FIFO order (kfree): the later ones move up.
Dequeue(h, s) ==
    [u \in Slots |->
       IF u = s THEN [h[u] EXCEPT !.seq = 0]
       ELSE IF h[s].seq > 0 /\ h[u].seq > h[s].seq THEN [h[u] EXCEPT !.seq = @ - 1]
       ELSE h[u]]

\* Entry s is put on the FIFO as its newest entry (the xchg of fifo_add.first).
Enqueue(h, s) ==
    LET g == Dequeue(h, s) IN
      [g EXCEPT ![s].seq = Cardinality({u \in Slots : g[u].seq > 0}) + 1]

Blank == [op |-> "none", page |-> 0, npages |-> 0, addr |-> 0, direction |-> "NONE",
          p |-> 0, d |-> NULL, tmp |-> NULL, n |-> NULL, i |-> 0,
          dmapage |-> 0, cpupage |-> 0, dmapage_end |-> 0,
          count |-> 0, removed |-> 0, b |-> <<>>, hasb |-> FALSE,
          first |-> NULL, e |-> NULL, prev |-> NULL, caller |-> "none",
          ret |-> 0, snap |-> <<>>, size |-> 0, seen |-> {}, direct |-> FALSE]

XaLoad(xa, Keys, k) == IF k \in Keys THEN xa[k] ELSE NULL

Counts == [s \in Slots |-> IF s \in allocated THEN mem[s].count ELSE 0]

\* ---------------------------------------------------------------- init
\* iommu_pagecache_init: the sentinel entry is on both lists, count 1.
iommu_pagecache_init ==
    /\ mem = [s \in Slots |-> IF s = SENT
                THEN [NoEntry EXCEPT !.count = 1]
                ELSE NoEntry]
    /\ allocated = {SENT}
    /\ fifo_add = SENT
    /\ fifo_del = SENT
    /\ cpupages = [h \in HostPages |-> NULL]
    /\ dmapages = [q \in DmaPages |-> NULL]
    /\ cachesize = 0
    /\ live = TRUE

InitEnv ==
    /\ iommu = [q \in DmaPages |-> FALSE]
    /\ xunmap = [q \in DmaPages |-> 0]
    /\ held = [r \in Ranges |-> 0]
    /\ lv = [t \in Threads |-> Blank]
    /\ hist = [s \in Slots |-> IF s = SENT THEN [NoHist EXCEPT !.seq = 1] ELSE NoHist]
    /\ uaf = FALSE
    /\ early = FALSE
    /\ uncached = {}

\* One thread: the other makes no call.
Init ==
    /\ it_size = ItSize
    /\ iommu_pagecache_init
    /\ InitEnv
    /\ pc = [t \in Threads |-> "idle"]
    /\ calls = [t \in Threads |-> IF t = 1 THEN MaxCalls ELSE 0]
    /\ fails = MaxFail /\ directs = MaxDirect

\* Two threads on a smaller table, where every allocation succeeds and
\* every page freed was added.
InitConc ==
    /\ it_size = ConcItSize
    /\ iommu_pagecache_init
    /\ InitEnv
    /\ pc = [t \in Threads |-> "idle"]
    /\ calls = [t \in Threads |-> IF t = 1 THEN ConcCalls ELSE 1]
    /\ fails = 0 /\ directs = 0


\* ------------------------------------------------------------- helpers
cacheVars == <<fifo_add, fifo_del, cpupages, dmapages, cachesize, live>>
envVars   == <<iommu, xunmap, held>>

\* GFP_ATOMIC allocations may fail: ok is FALSE for the ones that do.
Allocs == IF fails > 0 THEN BOOLEAN ELSE {TRUE}
Failed(ok) == fails' = IF ok THEN fails ELSE fails - 1
noteVars  == <<hist, early, uncached>>

Goto(t, l) == pc' = [pc EXCEPT ![t] = l]
Set(t, r)  == lv' = [lv EXCEPT ![t] = r]

\* A dereference of slot s is a use-after-free when s is not allocated.
Deref(s) == uaf' = (uaf \/ s \notin allocated)
DerefTwo(s, u) == uaf' = (uaf \/ s \notin allocated \/ u \notin allocated)

HeldTotal == LET Sum[S \in SUBSET Ranges] ==
                   IF S = {} THEN 0
                   ELSE LET r == CHOOSE x \in S : TRUE IN held[r] + Sum[S \ {r}]
             IN Sum[Ranges]

Take(r) == IF r \in Ranges THEN [held EXCEPT ![r] = @ + 1] ELSE held

\* iommu_pagecache_destroy frees the cache's resources: its caller lets no
\* other operation start while it runs.
NoDestroy == \A u \in Threads : lv[u].op # "destroy"

\* The operation returns v: the thread rests at "ret" with its arguments and
\* result, then goes back to "idle". The mapping code that called add hands
\* the driver its handle only now.
Ret(t, v) == /\ Goto(t, "ret")
             /\ Set(t, [lv[t] EXCEPT !.ret = v])

Return(t) ==
    /\ pc[t] = "ret"
    /\ Goto(t, "idle")
    /\ Set(t, Blank)
    /\ held' = IF lv[t].op = "add" THEN Take(<<lv[t].dmapage, lv[t].npages>>) ELSE held
    /\ UNCHANGED <<mem, allocated, cacheVars, iommu, xunmap, noteVars, uaf,
                   calls, fails, it_size, directs>>

\* atomic_fetch_add_unless(&d->count, 1, -IOMMU_CACHE_REMOVING) != -REMOVING
iommu_pagecache_use_one(s) == mem[s].count # -IOMMU_CACHE_REMOVING

\* ----------------------------------------------------------------- use
\* UseCall without the wrapper's test of max_cachesize
UseCallUnguarded(t) ==
    /\ pc[t] = "idle" /\ live /\ NoDestroy /\ calls[t] > 0 /\ HeldTotal < MaxHeld
    /\ \E h \in HostPages, N \in 0..MaxN, dir \in UseDirs :
         /\ h + N - 1 <= MaxHost
         /\ Set(t, [Blank EXCEPT !.op = "use", !.page = Shl(h), !.npages = N,
                                 !.direction = dir, !.p = Shr(Shl(h)),
                                 !.snap = Counts, !.size = cachesize,
                                 !.ret = DMA_MAPPING_ERROR])
    /\ calls' = [calls EXCEPT ![t] = @ - 1]
    /\ UNCHANGED <<fails, it_size, directs>>
    /\ Goto(t, "use_load")
    /\ UNCHANGED <<mem, allocated, cacheVars, envVars, noteVars, uaf>>

\* iommu_pagecache_use (and the inline wrapper of iommu-cache.h)
UseCall(t) ==
    /\ pc[t] = "idle" /\ live /\ NoDestroy /\ calls[t] > 0 /\ HeldTotal < MaxHeld
    /\ \E h \in HostPages, N \in 0..MaxN, dir \in UseDirs :
         /\ h + N - 1 <= MaxHost
         /\ Set(t, [Blank EXCEPT !.op = "use", !.page = Shl(h), !.npages = N,
                                 !.direction = dir, !.p = Shr(Shl(h)),
                                 !.snap = Counts, !.size = cachesize,
                                 !.ret = DMA_MAPPING_ERROR])
    /\ calls' = [calls EXCEPT ![t] = @ - 1]
    /\ UNCHANGED <<fails, it_size, directs>>
    /\ Goto(t, IF max_cachesize # 0 THEN "use_load" ELSE "ret")
    /\ UNCHANGED <<mem, allocated, cacheVars, envVars, noteVars, uaf>>

\* d = xa_load(&tbl->cache.cpupages, p); if (!d) return DMA_MAPPING_ERROR;
UseLoad(t) ==
    /\ pc[t] = "use_load"
    /\ LET d == cpupages[lv[t].p] IN
         IF d = NULL
         THEN Ret(t, DMA_MAPPING_ERROR)
         ELSE Goto(t, "use_test") /\ Set(t, [lv[t] EXCEPT !.d = d])
    /\ UNCHANGED <<mem, allocated, cacheVars, envVars, noteVars, uaf, calls, fails, it_size, directs>>

\* UseTest with the bug of not testing the direction of the chain entry
UseTestAnyDir(t) ==
    /\ pc[t] = "use_test"
    /\ LET d == lv[t].d IN
         IF d = NULL
         THEN Ret(t, DMA_MAPPING_ERROR) /\ UNCHANGED uaf
         ELSE /\ Deref(d)
              /\ UNCHANGED lv
              /\ IF lv[t].p # mem[d].cpupage
                 THEN Goto(t, "use_next")
                 ELSE Goto(t, "ur_first")
    /\ UNCHANGED <<mem, allocated, cacheVars, envVars, noteVars, calls, fails, it_size, directs>>

\* llist_for_each_entry(d, ...): the loop test and the test of the body
UseTest(t) ==
    /\ pc[t] = "use_test"
    /\ LET d == lv[t].d IN
         IF d = NULL
         THEN Ret(t, DMA_MAPPING_ERROR) /\ UNCHANGED uaf
         ELSE /\ Deref(d)
              /\ UNCHANGED lv
              /\ IF lv[t].p # mem[d].cpupage
                    \/ ~DMA_DIR_COMPAT(mem[d].direction, lv[t].direction)
                 THEN Goto(t, "use_next")
                 ELSE Goto(t, "ur_first")
    /\ UNCHANGED <<mem, allocated, cacheVars, envVars, noteVars, calls, fails, it_size, directs>>

\* pos = llist_entry(pos->next_map.next, ...)
UseNext(t) ==
    /\ pc[t] = "use_next"
    /\ lv[t].d # NULL
    /\ Deref(lv[t].d)
    /\ Set(t, [lv[t] EXCEPT !.d = mem[lv[t].d].next_map])
    /\ Goto(t, "use_test")
    /\ UNCHANGED <<mem, allocated, cacheVars, envVars, noteVars, calls, fails, it_size, directs>>

\* iommu_pagecache_use_range: dmapage = d->dmapage; cpupage = d->cpupage;
\* if (!iommu_pagecache_use_one(d)) return false;  i = npages - 1
UrFirst(t) ==
    /\ pc[t] = "ur_first"
    /\ lv[t].d # NULL
    /\ LET d == lv[t].d IN
         /\ Deref(d)
         /\ IF iommu_pagecache_use_one(d)
            THEN /\ mem' = [mem EXCEPT ![d].count = @ + 1]
                 /\ Set(t, [lv[t] EXCEPT !.dmapage = mem[d].dmapage,
                                         !.cpupage = mem[d].cpupage,
                                         !.i = lv[t].npages - 1,
                                         !.seen = {d}])
                 /\ Goto(t, "ur_loop")
            ELSE /\ UNCHANGED <<mem, lv>>
                 /\ Goto(t, "use_next")
    /\ UNCHANGED <<allocated, cacheVars, envVars, noteVars, calls, fails, it_size, directs>>

\* for (i = npages - 1; i > 0; i--) { tmp = xa_load(&cache->dmapages, dmapage + i);
\* if (!tmp ...) goto out_reverse;      after the loop: return true, and
\* iommu_pagecache_use returns d->dmapage << tbl->it_page_shift
UrLoop(t) ==
    /\ pc[t] = "ur_loop"
    /\ IF lv[t].i > 0
       THEN LET tmp == XaLoad(dmapages, DmaPages, lv[t].dmapage + lv[t].i) IN
              /\ IF tmp = NULL
                 THEN Goto(t, "ur_rev") /\ Set(t, [lv[t] EXCEPT !.tmp = tmp, !.i = @ + 1])
                 ELSE Goto(t, "ur_chk") /\ Set(t, [lv[t] EXCEPT !.tmp = tmp])
              /\ UNCHANGED <<held, uaf>>
       ELSE /\ lv[t].d # NULL
            /\ Deref(lv[t].d)
            /\ Ret(t, Shl(mem[lv[t].d].dmapage))
            /\ held' = (IF lv[t].npages >= 1
                        THEN Take(<<mem[lv[t].d].dmapage, lv[t].npages>>) ELSE held)
    /\ UNCHANGED <<mem, allocated, cacheVars, iommu, xunmap, noteVars, calls, fails, it_size, directs>>

\* UrChk with the bug of taking a page of the range without counting the
\* reference: the count of tmp stays as it was.
UrChkNoCount(t) ==
    /\ pc[t] = "ur_chk"
    /\ lv[t].tmp # NULL
    /\ LET tmp == lv[t].tmp IN
         /\ Deref(tmp)
         /\ UNCHANGED mem
         /\ IF /\ mem[tmp].cpupage = lv[t].cpupage + lv[t].i
               /\ DMA_DIR_COMPAT(mem[tmp].direction, lv[t].direction)
               /\ iommu_pagecache_use_one(tmp)
            THEN /\ Set(t, [lv[t] EXCEPT !.i = @ - 1, !.seen = @ \cup {tmp}])
                 /\ Goto(t, "ur_loop")
            ELSE /\ Set(t, [lv[t] EXCEPT !.i = @ + 1])
                 /\ Goto(t, "ur_rev")
    /\ UNCHANGED <<allocated, cacheVars, envVars, noteVars, calls, fails, it_size, directs>>

\* tmp->cpupage != cpupage + i, !DMA_DIR_COMPAT(...), !iommu_pagecache_use_one(tmp)
UrChk(t) ==
    /\ pc[t] = "ur_chk"
    /\ lv[t].tmp # NULL
    /\ LET tmp == lv[t].tmp IN
         /\ Deref(tmp)
         /\ IF /\ mem[tmp].cpupage = lv[t].cpupage + lv[t].i
               /\ DMA_DIR_COMPAT(mem[tmp].direction, lv[t].direction)
               /\ iommu_pagecache_use_one(tmp)
            THEN /\ mem' = [mem EXCEPT ![tmp].count = @ + 1]
                 /\ Set(t, [lv[t] EXCEPT !.i = @ - 1, !.seen = @ \cup {tmp}])
                 /\ Goto(t, "ur_loop")
            ELSE /\ UNCHANGED mem
                 /\ Set(t, [lv[t] EXCEPT !.i = @ + 1])
                 /\ Goto(t, "ur_rev")
    /\ UNCHANGED <<allocated, cacheVars, envVars, noteVars, calls, fails, it_size, directs>>

\* out_reverse: for (i++; i < npages; i++) { tmp = xa_load(...);
\* if (tmp) atomic_dec(&tmp->count); }
UrRev(t) ==
    /\ pc[t] = "ur_rev"
    /\ IF lv[t].i < lv[t].npages
       THEN LET tmp == XaLoad(dmapages, DmaPages, lv[t].dmapage + lv[t].i) IN
              /\ IF tmp # NULL
                 THEN mem' = [mem EXCEPT ![tmp].count = @ - 1] /\ Deref(tmp)
                 ELSE UNCHANGED <<mem, uaf>>
              /\ Set(t, [lv[t] EXCEPT !.tmp = tmp, !.i = @ + 1])
              /\ UNCHANGED pc
       ELSE /\ Goto(t, "ur_dec")
            /\ UNCHANGED <<mem, lv, uaf>>
    /\ UNCHANGED <<allocated, cacheVars, envVars, noteVars, calls, fails, it_size, directs>>

\* UrDec with the bug of leaving the reference on the first page behind.
UrDecLeak(t) ==
    /\ pc[t] = "ur_dec"
    /\ lv[t].d # NULL
    /\ Deref(lv[t].d)
    /\ UNCHANGED mem
    /\ Set(t, [lv[t] EXCEPT !.seen = {}])
    /\ Goto(t, "use_next")
    /\ UNCHANGED <<allocated, cacheVars, envVars, noteVars, calls, fails, it_size, directs>>

\* atomic_dec(&d->count); return false;
UrDec(t) ==
    /\ pc[t] = "ur_dec"
    /\ lv[t].d # NULL
    /\ Deref(lv[t].d)
    /\ mem' = [mem EXCEPT ![lv[t].d].count = @ - 1]
    /\ Set(t, [lv[t] EXCEPT !.seen = {}])
    /\ Goto(t, "use_next")
    /\ UNCHANGED <<allocated, cacheVars, envVars, noteVars, calls, fails, it_size, directs>>


\* ----------------------------------------------------------------- add
\* kmalloc(sizeof(*d), GFP_ATOMIC): NULL, or the lowest free address
kmalloc == (IF fails > 0 THEN {NULL} ELSE {}) \cup (IF Slots \ allocated = {} THEN {}
                        ELSE {CHOOSE s \in Slots \ allocated :
                                \A u \in Slots \ allocated : s <= u})

\* The IOMMU allocator (iommu_range_alloc, outside this file) hands add a
\* range of DMA pages that is not mapped.
AddCall(t) ==
    /\ pc[t] = "idle" /\ live /\ NoDestroy /\ calls[t] > 0 /\ HeldTotal < MaxHeld
    /\ \E h \in HostPages, N \in 0..MaxN, q \in DmaPages, dir \in Dirs :
         /\ h + N - 1 <= MaxHost
         /\ \A k \in 0..(N - 1) : q + k < it_size /\ ~iommu[q + k]
         /\ Set(t, [Blank EXCEPT !.op = "add", !.page = Shl(h), !.npages = N,
                                 !.addr = Shl(q), !.direction = dir,
                                 !.cpupage = Shr(Shl(h)), !.dmapage = Shr(Shl(q))])
         /\ iommu' = [k \in DmaPages |-> iommu[k] \/ (k >= q /\ k < q + N)]
         /\ xunmap' = [k \in DmaPages |-> IF k >= q /\ k < q + N THEN 0 ELSE xunmap[k]]
         \* atomic64_add(npages, &tbl->cache.cachesize), unless the cache is off
         /\ cachesize' = IF max_cachesize # 0 THEN cachesize + N ELSE cachesize
    /\ calls' = [calls EXCEPT ![t] = @ - 1]
    /\ UNCHANGED <<fails, it_size, directs>>
    /\ Goto(t, IF max_cachesize # 0 THEN "add_loop" ELSE "ret")
    /\ UNCHANGED <<mem, allocated, fifo_add, fifo_del, cpupages, dmapages, live,
                   held, noteVars, uaf>>

\* for (i = 0; i < npages; i++) { d = kmalloc(...); if (!d) return; d->... = ...;
AddLoop(t) ==
    /\ pc[t] = "add_loop"
    /\ IF lv[t].i < lv[t].npages
       THEN \E s \in kmalloc :
              /\ Failed(s # NULL)
              /\ IF s = NULL
                 THEN /\ Ret(t, 0)
                      /\ early' = TRUE
                      /\ UNCHANGED <<mem, allocated, hist>>
                 ELSE /\ allocated' = allocated \cup {s}
                      /\ mem' = [mem EXCEPT ![s] =
                                   [fifo |-> NULL, next_map |-> NULL,
                                    dmapage |-> lv[t].dmapage + lv[t].i,
                                    cpupage |-> lv[t].cpupage + lv[t].i,
                                    count |-> 1, direction |-> lv[t].direction]]
                      /\ hist' = [Dequeue(hist, s) EXCEPT ![s] =
                                   [NoHist EXCEPT !.base = lv[t].dmapage, !.np = lv[t].npages]]
                      /\ Set(t, [lv[t] EXCEPT !.d = s, !.seen = @ \cup {s}])
                      /\ Goto(t, "add_dma")
                      /\ UNCHANGED early
       ELSE /\ Ret(t, 0)
            /\ UNCHANGED <<mem, allocated, hist, early, fails>>
    /\ UNCHANGED <<cacheVars, envVars, uncached, uaf, calls, it_size, directs>>

\* tmp = xa_store(&tbl->cache.dmapages, dmapage + i, d, GFP_ATOMIC);
\* if (xa_is_err(tmp)) { kfree(d); break; }
AddDma(t) ==
    /\ pc[t] = "add_dma"
    /\ \E ok \in Allocs :
         /\ Failed(ok)
         /\ IF ok
            THEN /\ dmapages' = [dmapages EXCEPT ![lv[t].dmapage + lv[t].i] = lv[t].d]
                 /\ Set(t, [lv[t] EXCEPT !.tmp = dmapages[lv[t].dmapage + lv[t].i]])
                 /\ Goto(t, "add_cpu")
                 /\ UNCHANGED <<allocated, early>>
            ELSE /\ allocated' = allocated \ {lv[t].d}
                 /\ early' = TRUE
                 /\ Ret(t, 0)
                 /\ UNCHANGED dmapages
    /\ UNCHANGED <<mem, fifo_add, fifo_del, cpupages, cachesize, live, envVars,
                   hist, uncached, uaf, calls, it_size, directs>>

\* AddCpu without the xa_erase of the DMA-page index on failure
AddCpuNoRollback(t) ==
    /\ pc[t] = "add_cpu"
    /\ \E ok \in Allocs :
         /\ Failed(ok)
         /\ IF ok
            THEN /\ cpupages' = [cpupages EXCEPT ![lv[t].cpupage + lv[t].i] = lv[t].d]
                 /\ Set(t, [lv[t] EXCEPT !.tmp = cpupages[lv[t].cpupage + lv[t].i]])
                 /\ Goto(t, IF cpupages[lv[t].cpupage + lv[t].i] # NULL
                            THEN "add_chain" ELSE "add_fifo")
                 /\ UNCHANGED <<allocated, early, dmapages>>
            ELSE /\ allocated' = allocated \ {lv[t].d}
                 /\ early' = TRUE
                 /\ Ret(t, 0)
                 /\ UNCHANGED <<cpupages, dmapages>>
    /\ UNCHANGED <<mem, fifo_add, fifo_del, cachesize, live, envVars,
                   hist, uncached, uaf, calls, it_size, directs>>

\* tmp = xa_store(&tbl->cache.cpupages, cpupage + i, d, GFP_ATOMIC);
\* if (xa_is_err(tmp)) { xa_erase(&tbl->cache.dmapages, dmapage + i); kfree(d); break; }
AddCpu(t) ==
    /\ pc[t] = "add_cpu"
    /\ \E ok \in Allocs :
         /\ Failed(ok)
         /\ IF ok
            THEN /\ cpupages' = [cpupages EXCEPT ![lv[t].cpupage + lv[t].i] = lv[t].d]
                 /\ Set(t, [lv[t] EXCEPT !.tmp = cpupages[lv[t].cpupage + lv[t].i]])
                 /\ Goto(t, IF cpupages[lv[t].cpupage + lv[t].i] # NULL
                            THEN "add_chain" ELSE "add_fifo")
                 /\ UNCHANGED <<allocated, early, dmapages>>
            ELSE /\ dmapages' = [dmapages EXCEPT ![lv[t].dmapage + lv[t].i] = NULL]
                 /\ allocated' = allocated \ {lv[t].d}
                 /\ early' = TRUE
                 /\ Ret(t, 0)
                 /\ UNCHANGED cpupages
    /\ UNCHANGED <<mem, fifo_add, fifo_del, cachesize, live, envVars,
                   hist, uncached, uaf, calls, it_size, directs>>

\* if (tmp) xchg(&d->next_map.next, &tmp->next_map);
AddChain(t) ==
    /\ pc[t] = "add_chain"
    /\ mem' = [mem EXCEPT ![lv[t].d].next_map = lv[t].tmp]
    /\ Goto(t, "add_fifo")
    /\ UNCHANGED <<lv, allocated, cacheVars, envVars, noteVars, uaf, calls, fails, it_size, directs>>

\* n = xchg(&tbl->cache.fifo_add.first, &d->fifo);
AddFifo(t) ==
    /\ pc[t] = "add_fifo"
    /\ fifo_add' = lv[t].d
    /\ hist' = Enqueue(hist, lv[t].d)
    /\ IF fifo_add # NULL
       THEN Goto(t, "add_link") /\ Set(t, [lv[t] EXCEPT !.n = fifo_add])
       ELSE Goto(t, "add_loop") /\ Set(t, [lv[t] EXCEPT !.n = fifo_add, !.i = @ + 1])
    /\ UNCHANGED <<mem, allocated, fifo_del, cpupages, dmapages, cachesize, live,
                   envVars, early, uncached, uaf, calls, fails, it_size, directs>>

\* if (n) n->next = &d->fifo;
AddLink(t) ==
    /\ pc[t] = "add_link"
    /\ Deref(lv[t].n)
    /\ mem' = [mem EXCEPT ![lv[t].n].fifo = lv[t].d]
    /\ Set(t, [lv[t] EXCEPT !.i = @ + 1])
    /\ Goto(t, "add_loop")
    /\ UNCHANGED <<allocated, cacheVars, envVars, noteVars, calls, fails, it_size, directs>>


\* ------------------------------------------------------ unmap buffers
\* iommu_pagecache_unmap_add: merge into the latest run that ends at dmapage,
\* else start a run.  b is the sequence entry[0 .. entry_count-1].
RECURSIVE MergeAt(_, _, _)
MergeAt(b, i, dmapage) ==
    IF i = 0 THEN 0
    ELSE IF dmapage = b[i].dmabase + b[i].size THEN i
    ELSE MergeAt(b, i - 1, dmapage)

UnmapAddLastOnly(b, dmapage) ==
    LET i == IF Len(b) > 0 /\ dmapage = b[Len(b)].dmabase + b[Len(b)].size
             THEN Len(b) ELSE 0 IN
      IF i # 0 THEN [b EXCEPT ![i].size = @ + 1]
      ELSE Append(b, [dmabase |-> dmapage, size |-> 1])

iommu_pagecache_unmap_add(b, dmapage) ==
    LET i == MergeAt(b, Len(b), dmapage) IN
      IF i # 0 THEN [b EXCEPT ![i].size = @ + 1]
      ELSE Append(b, [dmabase |-> dmapage, size |-> 1])

\* unmap_add writes entry[entry_count] of a buffer kmalloc'ed for cap entries
Overflows(b, dmapage, cap) == MergeAt(b, Len(b), dmapage) = 0 /\ Len(b) >= cap

Cover(runs, k) ==
    Cardinality({j \in 1..Len(runs) :
                   runs[j].dmabase <= k /\ k < runs[j].dmabase + runs[j].size})

RECURSIVE Freed(_, _)
Freed(runs, j) == IF j = 0 THEN 0 ELSE runs[j].size + Freed(runs, j - 1)

\* __iommu_free(tbl, dmabase << shift, size) for every run: the external unmap
ExtUnmap(runs) ==
    /\ iommu' = [k \in DmaPages |-> iommu[k] /\ Cover(runs, k) = 0]
    /\ xunmap' = [k \in DmaPages |-> xunmap[k] + Cover(runs, k)]

\* ---------------------------------------------------------------- free
\* The driver gives back a mapping it holds, or one that was mapped
\* directly (never passed to add) and is mapped here on the way in.
FreeCall(t) ==
    /\ pc[t] = "idle" /\ live /\ NoDestroy /\ calls[t] > 0
    /\ \E q \in DmaPages, N \in 0..MaxN,
          direct \in (IF directs > 0 THEN BOOLEAN ELSE {FALSE}) :
         /\ q + N <= it_size
         /\ directs' = IF direct THEN directs - 1 ELSE directs
         /\ IF direct
            THEN /\ \A k \in 0..(N - 1) : ~iommu[q + k]
                 /\ UNCHANGED held
            ELSE /\ N > 0 /\ held[<<q, N>>] > 0
                 /\ held' = [held EXCEPT ![<<q, N>>] = @ - 1]
         /\ Set(t, [Blank EXCEPT !.op = "free", !.addr = Shl(q), !.npages = N,
                                 !.dmapage = Shr(Shl(q)), !.dmapage_end = Shr(Shl(q)) + N,
                                 !.snap = IF direct THEN Counts ELSE <<>>,
                                 !.size = IF direct THEN cachesize ELSE 0,
                                 !.direct = direct])
         /\ IF max_cachesize # 0
            THEN /\ iommu' = [k \in DmaPages |->
                                iommu[k] \/ (direct /\ k >= q /\ k < q + N)]
                 /\ xunmap' = [k \in DmaPages |->
                                IF direct /\ k >= q /\ k < q + N THEN 0 ELSE xunmap[k]]
                 /\ Goto(t, "free_loop")
            ELSE \* __iommu_free(tbl, dma_handle, npages)
                 /\ iommu' = [k \in DmaPages |-> iommu[k] /\ ~(k >= q /\ k < q + N)]
                 /\ xunmap' = [k \in DmaPages |->
                                IF k >= q /\ k < q + N
                                THEN (IF direct THEN 1 ELSE xunmap[k] + 1) ELSE xunmap[k]]
                 /\ Goto(t, "ret")
    /\ calls' = [calls EXCEPT ![t] = @ - 1]
    /\ UNCHANGED <<fails, it_size>>
    /\ UNCHANGED <<mem, allocated, cacheVars, noteVars, uaf>>

\* for (; dmapage < dmapage_end; dmapage++) { d = xa_load(...); if (d) ...
\* if (!b) { b = iommu_pagecache_unmap_new(npages); if (!b) {
\* __iommu_free(tbl, dmapage << shift, npages); continue; } }
\* iommu_pagecache_unmap_add(b, dmapage); }
FreeLoop(t) ==
    /\ pc[t] = "free_loop"
    /\ IF lv[t].dmapage < lv[t].dmapage_end
       THEN LET d == XaLoad(dmapages, DmaPages, lv[t].dmapage) IN
              IF d # NULL
              THEN /\ Set(t, [lv[t] EXCEPT !.d = d])
                   /\ Goto(t, "free_dec")
                   /\ UNCHANGED <<iommu, xunmap, uncached, fails>>
              ELSE /\ UNCHANGED pc
                   /\ \E ok \in (IF lv[t].hasb THEN {TRUE} ELSE Allocs) :
                        /\ Failed(ok)
                        /\ uncached' = uncached
                                \cup (IF lv[t].direct THEN {"direct"} ELSE {})
                                \cup (IF ok THEN {"batch"} ELSE {"fallback"})
                        /\ IF ok
                           THEN /\ Set(t, [lv[t] EXCEPT
                                      !.d = d, !.hasb = TRUE,
                                      !.b = iommu_pagecache_unmap_add(@, lv[t].dmapage),
                                      !.dmapage = @ + 1])
                                /\ UNCHANGED <<iommu, xunmap>>
                           ELSE /\ ExtUnmap(<<[dmabase |-> lv[t].dmapage,
                                               size |-> lv[t].npages]>>)
                                /\ Set(t, [lv[t] EXCEPT !.d = d, !.dmapage = @ + 1])
       ELSE /\ Goto(t, "free_flush")
            /\ UNCHANGED <<lv, iommu, xunmap, uncached, fails>>
    /\ UNCHANGED <<mem, allocated, cacheVars, held, hist, early, uaf, calls, it_size, directs>>

\* atomic_dec(&d->count); continue;
FreeDec(t) ==
    /\ pc[t] = "free_dec"
    /\ lv[t].d # NULL
    /\ Deref(lv[t].d)
    /\ mem' = [mem EXCEPT ![lv[t].d].count = @ - 1]
    /\ Set(t, [lv[t] EXCEPT !.dmapage = @ + 1])
    /\ Goto(t, "free_loop")
    /\ UNCHANGED <<allocated, cacheVars, envVars, noteVars, calls, fails, it_size, directs>>

\* iommu_pagecache_unmap(tbl, b): __iommu_free every run, kfree(b),
\* atomic64_sub(freed, &tbl->cache.cachesize)
iommu_pagecache_unmap(b) ==
    /\ ExtUnmap(b)
    /\ cachesize' = cachesize - Freed(b, Len(b))

\* if (b) iommu_pagecache_unmap(tbl, b);
FreeFlush(t) ==
    /\ pc[t] = "free_flush"
    /\ IF lv[t].hasb
       THEN iommu_pagecache_unmap(lv[t].b)
       ELSE UNCHANGED <<iommu, xunmap, cachesize>>
    /\ Set(t, [lv[t] EXCEPT !.hasb = FALSE])
    /\ Goto(t, "free_exc")
    /\ UNCHANGED <<mem, allocated, fifo_add, fifo_del, cpupages, dmapages, live,
                   held, noteVars, uaf, calls, fails, it_size, directs>>

\* FreeExc with the bug of starting the pass already at max_cachesize
FreeExcAtMax(t) ==
    /\ pc[t] = "free_exc"
    /\ LET exceeding == cachesize - max_cachesize IN
         IF exceeding >= 0
         THEN /\ Set(t, [lv[t] EXCEPT !.count = exceeding + IOMMU_CACHE_THRES,
                                      !.caller = "free", !.removed = 0, !.b = <<>>])
              /\ Goto(t, "cl_del")
         ELSE Ret(t, 0)
    /\ UNCHANGED <<mem, allocated, cacheVars, envVars, noteVars, uaf, calls, fails, it_size, directs>>

\* exceeding = atomic64_read(&cachesize) - max_cachesize;
\* if (exceeding > 0) iommu_pagecache_clean(tbl, exceeding + IOMMU_CACHE_THRES);
FreeExc(t) ==
    /\ pc[t] = "free_exc"
    /\ LET exceeding == cachesize - max_cachesize IN
         IF exceeding > 0
         THEN /\ Set(t, [lv[t] EXCEPT !.count = exceeding + IOMMU_CACHE_THRES,
                                      !.caller = "free", !.removed = 0, !.b = <<>>])
              /\ Goto(t, "cl_del")
         ELSE Ret(t, 0)
    /\ UNCHANGED <<mem, allocated, cacheVars, envVars, noteVars, uaf, calls, fails, it_size, directs>>


\* --------------------------------------------------------------- clean
\* iommu_pagecache_clean(tbl, count) returns to free or to destroy
CleanReturn(t) ==
    IF lv[t].caller = "destroy"
    THEN Goto(t, "destroy_xa") /\ Set(t, [lv[t] EXCEPT !.hasb = FALSE])
    ELSE Ret(t, 0)

\* n = llist_del_all(&cache->fifo_del); if (!n) return;
ClDel(t) ==
    /\ pc[t] = "cl_del"
    /\ fifo_del' = NULL
    /\ IF fifo_del = NULL
       THEN CleanReturn(t)
       ELSE Goto(t, "cl_new") /\ Set(t, [lv[t] EXCEPT !.n = fifo_del])
    /\ UNCHANGED <<mem, allocated, fifo_add, cpupages, dmapages, cachesize, live,
                   envVars, noteVars, uaf, calls, fails, it_size, directs>>

\* ClNew that returns without putting the detached list back
ClNewNoRestore(t) ==
    /\ pc[t] = "cl_new"
    /\ \E ok \in Allocs :
         /\ Failed(ok)
         /\ IF ok /\ lv[t].count >= 0
            THEN /\ Set(t, [lv[t] EXCEPT !.hasb = TRUE, !.b = <<>>, !.d = lv[t].n,
                                         !.removed = 0, !.seen = {}])
                 /\ Goto(t, "cl_test")
                 /\ UNCHANGED fifo_del
            ELSE /\ UNCHANGED fifo_del
                 /\ CleanReturn(t)
    /\ UNCHANGED <<mem, allocated, fifo_add, cpupages, dmapages, cachesize, live,
                   envVars, noteVars, uaf, calls, it_size, directs>>

\* b = iommu_pagecache_unmap_new(count);
\* if (!b) { xchg(&cache->fifo_del.first, n); return; }
\* kmalloc(sizeof(*b) + sizeof(b->entry[0]) * size) of a negative count fails.
ClNew(t) ==
    /\ pc[t] = "cl_new"
    /\ \E ok \in Allocs :
         /\ Failed(ok)
         /\ IF ok /\ lv[t].count >= 0
            THEN /\ Set(t, [lv[t] EXCEPT !.hasb = TRUE, !.b = <<>>, !.d = lv[t].n,
                                         !.removed = 0, !.seen = {}])
                 /\ Goto(t, "cl_test")
                 /\ UNCHANGED fifo_del
            ELSE /\ fifo_del' = lv[t].n
                 /\ CleanReturn(t)
    /\ UNCHANGED <<mem, allocated, fifo_add, cpupages, dmapages, cachesize, live,
                   envVars, noteVars, uaf, calls, it_size, directs>>

\* ClTest that goes on two entries further instead of one
ClTestSkip(t) ==
    /\ pc[t] = "cl_test"
    /\ IF lv[t].d = NULL
       THEN Goto(t, "cl_restore") /\ UNCHANGED <<lv, uaf>>
       ELSE /\ Deref(lv[t].d)
            /\ Set(t, [lv[t] EXCEPT !.tmp = IF mem[lv[t].d].fifo = NULL THEN NULL
                                             ELSE mem[mem[lv[t].d].fifo].fifo])
            /\ Goto(t, "cl_sub")
    /\ UNCHANGED <<mem, allocated, cacheVars, envVars, noteVars, calls, fails, it_size, directs>>

\* llist_for_each_entry_safe(d, tmp, n, fifo): d != NULL && (tmp = d->fifo.next, true)
ClTest(t) ==
    /\ pc[t] = "cl_test"
    /\ IF lv[t].d = NULL
       THEN Goto(t, "cl_restore") /\ UNCHANGED <<lv, uaf>>
       ELSE /\ Deref(lv[t].d)
            /\ Set(t, [lv[t] EXCEPT !.tmp = mem[lv[t].d].fifo])
            /\ Goto(t, "cl_sub")
    /\ UNCHANGED <<mem, allocated, cacheVars, envVars, noteVars, calls, fails, it_size, directs>>

\* A claim test that also takes an entry whose count was 1
ClaimedAtOne(r) == r = -IOMMU_CACHE_REMOVING \/ r = 1 - IOMMU_CACHE_REMOVING

\* r = atomic_sub_return_relaxed(IOMMU_CACHE_REMOVING, &d->count);
\* if (r != -IOMMU_CACHE_REMOVING) { in use } else { fully remove entry }
Claimed(r) == r = -IOMMU_CACHE_REMOVING

ClSub(t) ==
    /\ pc[t] = "cl_sub"
    /\ lv[t].d # NULL
    /\ LET d == lv[t].d
           r == mem[d].count - IOMMU_CACHE_REMOVING IN
         /\ Deref(d)
         /\ mem' = [mem EXCEPT ![d].count = r]
         /\ IF Claimed(r)
            THEN /\ hist' = [hist EXCEPT ![d].claimed = t]
                 /\ Goto(t, "er_erase")
                 /\ UNCHANGED lv
            ELSE /\ Goto(t, "cl_requeue")
                 /\ Set(t, [lv[t] EXCEPT !.seen = @ \cup {d},
                                         !.i = IF d \in lv[t].seen THEN 1 ELSE @])
                 /\ UNCHANGED hist
    /\ UNCHANGED <<allocated, cacheVars, envVars, early, uncached, calls, fails, it_size, directs>>

\* n = xchg(&cache->fifo_add.first, &d->fifo);
ClRequeue(t) ==
    /\ pc[t] = "cl_requeue"
    /\ fifo_add' = lv[t].d
    /\ hist' = Enqueue(hist, lv[t].d)
    /\ Set(t, [lv[t] EXCEPT !.n = fifo_add])
    /\ Goto(t, IF fifo_add # NULL THEN "cl_link" ELSE "cl_addback")
    /\ UNCHANGED <<mem, allocated, fifo_del, cpupages, dmapages, cachesize, live,
                   envVars, early, uncached, uaf, calls, fails, it_size, directs>>

\* if (n) n->next = &d->fifo;
ClLink(t) ==
    /\ pc[t] = "cl_link"
    /\ lv[t].n # NULL
    /\ Deref(lv[t].n)
    /\ mem' = [mem EXCEPT ![lv[t].n].fifo = lv[t].d]
    /\ Goto(t, "cl_addback")
    /\ UNCHANGED <<lv, allocated, cacheVars, envVars, noteVars, calls, fails, it_size, directs>>

\* ClAddback that leaves the bias in the count
ClAddbackNoRestore(t) ==
    /\ pc[t] = "cl_addback"
    /\ lv[t].d # NULL
    /\ Deref(lv[t].d)
    /\ UNCHANGED mem
    /\ Set(t, [lv[t] EXCEPT !.d = lv[t].tmp])
    /\ Goto(t, "cl_test")
    /\ UNCHANGED <<allocated, cacheVars, envVars, noteVars, calls, fails, it_size, directs>>

\* atomic_add(IOMMU_CACHE_REMOVING, &d->count); continue;
ClAddback(t) ==
    /\ pc[t] = "cl_addback"
    /\ lv[t].d # NULL
    /\ Deref(lv[t].d)
    /\ mem' = [mem EXCEPT ![lv[t].d].count = @ + IOMMU_CACHE_REMOVING]
    /\ Set(t, [lv[t] EXCEPT !.d = lv[t].tmp])
    /\ Goto(t, "cl_test")
    /\ UNCHANGED <<allocated, cacheVars, envVars, noteVars, calls, fails, it_size, directs>>

\* iommu_pagecache_entry_remove: first = xa_erase(&cache->cpupages, d->cpupage);
\* if (!first) goto free_dma; if (d == first) { if (!d->next_map.next) goto free_dma;
\* first = d->next_map.next; goto upd_cpu; }
ErErase(t) ==
    /\ pc[t] = "er_erase"
    /\ lv[t].d # NULL
    /\ LET d == lv[t].d
           first == XaLoad(cpupages, HostPages, mem[d].cpupage) IN
         /\ Deref(d)
         /\ cpupages' = [h \in HostPages |->
                           IF h = mem[d].cpupage THEN NULL ELSE cpupages[h]]
         /\ IF first = NULL
            THEN Goto(t, "er_dma") /\ Set(t, [lv[t] EXCEPT !.first = first])
            ELSE IF d = first
            THEN IF mem[d].next_map = NULL
                 THEN Goto(t, "er_dma") /\ Set(t, [lv[t] EXCEPT !.first = first])
                 ELSE /\ Goto(t, "er_upd")
                      /\ Set(t, [lv[t] EXCEPT !.first = mem[d].next_map,
                                              !.e = mem[d].next_map])
            ELSE /\ Goto(t, "er_walk")
                 /\ Set(t, [lv[t] EXCEPT !.first = first, !.e = first, !.prev = NULL])
    /\ UNCHANGED <<mem, allocated, fifo_add, fifo_del, dmapages, cachesize, live,
                   envVars, noteVars, calls, fails, it_size, directs>>

\* llist_for_each_entry(e, &first->next_map, next_map) {
\*   if (e == d) { tmp->next_map.next = e->next_map.next; goto upd_cpu; } tmp = e; }
\* goto free_dma;
ErWalk(t) ==
    /\ pc[t] = "er_walk"
    /\ LET e == lv[t].e IN
         IF e = NULL
         THEN Goto(t, "er_dma") /\ UNCHANGED <<mem, lv, uaf>>
         ELSE IF e = lv[t].d
         THEN /\ lv[t].prev # NULL
              /\ DerefTwo(e, lv[t].prev)
              /\ mem' = [mem EXCEPT ![lv[t].prev].next_map = mem[e].next_map]
              /\ Set(t, [lv[t] EXCEPT !.e = lv[t].first])
              /\ Goto(t, "er_upd")
         ELSE /\ Deref(e)
              /\ Set(t, [lv[t] EXCEPT !.prev = e, !.e = mem[e].next_map])
              /\ UNCHANGED <<mem, pc>>
    /\ UNCHANGED <<allocated, cacheVars, envVars, noteVars, calls, fails, it_size, directs>>

\* iommu_pagecache_cpupage_update: e = xa_store(&cache->cpupages, cpupage, e);
\* if (likely(!e)) return;
ErUpd(t) ==
    /\ pc[t] = "er_upd"
    /\ lv[t].d # NULL
    /\ LET cp == mem[lv[t].d].cpupage
           old == XaLoad(cpupages, HostPages, cp) IN
         /\ Deref(lv[t].d)
         /\ cpupages' = [h \in HostPages |-> IF h = cp THEN lv[t].e ELSE cpupages[h]]
         /\ Set(t, [lv[t] EXCEPT !.e = old])
         /\ Goto(t, IF old = NULL THEN "er_dma" ELSE "upd_erase")
    /\ UNCHANGED <<mem, allocated, fifo_add, fifo_del, dmapages, cachesize, live,
                   envVars, noteVars, calls, fails, it_size, directs>>

\* Something got stored between xa_erase and xa_store:
\* first = xa_erase(&cache->cpupages, cpupage);   n = &e->next_map
UpdErase(t) ==
    /\ pc[t] = "upd_erase"
    /\ lv[t].d # NULL
    /\ LET cp == mem[lv[t].d].cpupage IN
         /\ Deref(lv[t].d)
         /\ cpupages' = [h \in HostPages |-> IF h = cp THEN NULL ELSE cpupages[h]]
         /\ Set(t, [lv[t] EXCEPT !.first = XaLoad(cpupages, HostPages, cp),
                                 !.prev = lv[t].e])
         /\ Goto(t, "upd_walk")
    /\ UNCHANGED <<mem, allocated, fifo_add, fifo_del, dmapages, cachesize, live,
                   envVars, noteVars, calls, fails, it_size, directs>>

\* for (n = &e->next_map; n->next; n = n->next) ;
\* xchg(&n->next, &first->next_map);     and round the for (;;) again
UpdWalk(t) ==
    /\ pc[t] = "upd_walk"
    /\ lv[t].prev # NULL
    /\ LET n == lv[t].prev IN
         /\ Deref(n)
         /\ IF mem[n].next_map # NULL
            THEN /\ Set(t, [lv[t] EXCEPT !.prev = mem[n].next_map])
                 /\ UNCHANGED <<mem, pc>>
            ELSE /\ lv[t].first # NULL
                 /\ mem' = [mem EXCEPT ![n].next_map = lv[t].first]
                 /\ Goto(t, "er_upd")
                 /\ UNCHANGED lv
    /\ UNCHANGED <<allocated, cacheVars, envVars, noteVars, calls, fails, it_size, directs>>

\* free_dma: xa_erase(&cache->dmapages, d->dmapage);  and back in clean:
\* iommu_pagecache_unmap_add(b, d->dmapage); kfree(d);
\* if (++removed >= count) break;
ErDma(t) ==
    /\ pc[t] = "er_dma"
    /\ lv[t].d # NULL
    /\ LET d == lv[t].d
           q == mem[d].dmapage IN
         /\ uaf' = (uaf \/ d \notin allocated \/ Overflows(lv[t].b, q, lv[t].count))
         /\ dmapages' = [k \in DmaPages |-> IF k = q THEN NULL ELSE dmapages[k]]
         /\ allocated' = allocated \ {d}
         /\ hist' = [Dequeue(hist, d) EXCEPT ![d].removed = @ + 1]
         /\ IF lv[t].removed + 1 >= lv[t].count
            THEN /\ Goto(t, "cl_restore")
                 /\ Set(t, [lv[t] EXCEPT !.b = iommu_pagecache_unmap_add(@, q),
                                         !.removed = @ + 1])
            ELSE /\ Goto(t, "cl_test")
                 /\ Set(t, [lv[t] EXCEPT !.b = iommu_pagecache_unmap_add(@, q),
                                         !.removed = @ + 1, !.d = lv[t].tmp])
    /\ UNCHANGED <<mem, fifo_add, fifo_del, cpupages, cachesize, live,
                   envVars, early, uncached, calls, fails, it_size, directs>>

\* xchg(&cache->fifo_del.first, &tmp->fifo);
ClRestore(t) ==
    /\ pc[t] = "cl_restore"
    /\ fifo_del' = lv[t].tmp
    /\ Goto(t, "cl_unmap")
    /\ UNCHANGED <<lv, mem, allocated, fifo_add, cpupages, dmapages, cachesize, live,
                   envVars, noteVars, uaf, calls, fails, it_size, directs>>

\* iommu_pagecache_unmap(tbl, b);
ClUnmap(t) ==
    /\ pc[t] = "cl_unmap"
    /\ iommu_pagecache_unmap(lv[t].b)
    /\ CleanReturn(t)
    /\ UNCHANGED <<mem, allocated, fifo_add, fifo_del, cpupages, dmapages, live,
                   held, noteVars, uaf, calls, fails, it_size, directs>>

\* ------------------------------------------------------------- destroy
\* iommu_pagecache_clean(tbl, atomic64_read(&tbl->cache.cachesize));
\* The caller makes sure no other operation is in flight.
DestroyCall(t) ==
    /\ pc[t] = "idle" /\ live /\ calls[t] > 0
    /\ \A u \in Threads \ {t} : pc[u] = "idle"
    /\ Set(t, [Blank EXCEPT !.op = "destroy", !.count = cachesize,
                            !.caller = "destroy"])
    /\ calls' = [calls EXCEPT ![t] = @ - 1]
    /\ UNCHANGED <<fails, it_size, directs>>
    /\ Goto(t, "cl_del")
    /\ UNCHANGED <<mem, allocated, cacheVars, envVars, noteVars, uaf>>

\* xa_destroy(&tbl->cache.cpupages); xa_destroy(&tbl->cache.dmapages);
DestroyXa(t) ==
    /\ pc[t] = "destroy_xa"
    /\ cpupages' = [h \in HostPages |-> NULL]
    /\ dmapages' = [k \in DmaPages |-> NULL]
    /\ live' = FALSE
    /\ Ret(t, 0)
    /\ UNCHANGED <<mem, allocated, fifo_add, fifo_del, cachesize, envVars,
                   noteVars, uaf, calls, fails, it_size, directs>>

\* ---------------------------------------------------------------- oops
\* The pointer the thread's next step dereferences.
Target(t) ==
    CASE pc[t] \in {"use_test", "use_next", "ur_first", "ur_dec", "free_dec",
                    "cl_test", "cl_sub", "cl_addback", "er_erase", "er_upd",
                    "upd_erase", "er_dma"} -> lv[t].d
      [] pc[t] = "ur_loop" /\ lv[t].i <= 0 -> lv[t].d
      [] pc[t] = "ur_chk" -> lv[t].tmp
      [] pc[t] \in {"add_link", "cl_link"} -> lv[t].n
      [] pc[t] = "er_walk" /\ lv[t].e # lv[t].d -> lv[t].e
      [] pc[t] = "er_walk" /\ lv[t].e = lv[t].d -> lv[t].prev
      [] pc[t] = "upd_walk" /\ lv[t].prev # NULL /\ mem[lv[t].prev].next_map = NULL
            -> lv[t].first
      [] pc[t] = "upd_walk" -> lv[t].prev
      [] OTHER -> SENT

\* A NULL pointer dereference ends the thread; the dereference of a freed
\* slot may (what the slot holds is then not the program's to say).
Oops(t) ==
    /\ pc[t] \notin {"idle", "ret", "oops"}
    /\ ~(pc[t] \in {"use_test", "cl_test", "er_walk"} /\ Target(t) = NULL)
    /\ Target(t) = NULL \/ Target(t) \notin allocated
    /\ Goto(t, "oops")
    /\ uaf' = (uaf \/ Target(t) # NULL)
    /\ UNCHANGED <<lv, mem, allocated, cacheVars, envVars, noteVars, calls, fails, it_size, directs>>

\* ---------------------------------------------------------------- next
Step(t) ==
    \/ UseCall(t) \/ UseLoad(t) \/ UseTest(t) \/ UseNext(t)
    \/ UrFirst(t) \/ UrLoop(t) \/ UrChk(t) \/ UrRev(t) \/ UrDec(t)
    \/ AddCall(t) \/ AddLoop(t) \/ AddDma(t) \/ AddCpu(t) \/ AddChain(t)
    \/ AddFifo(t) \/ AddLink(t)
    \/ FreeCall(t) \/ FreeLoop(t) \/ FreeDec(t) \/ FreeFlush(t) \/ FreeExc(t)
    \/ ClDel(t) \/ ClNew(t) \/ ClTest(t) \/ ClSub(t) \/ ClRequeue(t) \/ ClLink(t)
    \/ ClAddback(t) \/ ErErase(t) \/ ErWalk(t) \/ ErUpd(t) \/ ErDma(t)
    \/ ClRestore(t) \/ ClUnmap(t)
    \/ DestroyCall(t) \/ DestroyXa(t)
    \/ Return(t) \/ Oops(t)

Next == \E t \in Threads : Step(t)

\* The second round of cpupage_update (UpdErase, UpdWalk) starts when an add
\* stores another mapping of the host page between entry_remove's xa_erase and
\* its xa_store, which takes three DMA pages mapping one host page and two
\* threads: it is not a step of the runs below.
Spec == Init /\ [][Next]_vars

SpecConc == InitConc /\ [][Next]_vars

\* A table so small that max_cachesize = (IOMMU_CACHE_MAX * it_size) / 100 is
\* 0: the inline wrappers of iommu-cache.h then leave the cache alone.
InitOff ==
    /\ it_size \in {n \in 0..ItSize : (IOMMU_CACHE_MAX * n) \div 100 = 0}
    /\ iommu_pagecache_init
    /\ InitEnv
    /\ pc = [t \in Threads |-> "idle"]
    /\ calls = [t \in Threads |-> IF t = 1 THEN MaxCalls ELSE 1]
    /\ fails = MaxFail /\ directs = MaxDirect

\* With the cache off use, add and free return from the wrapper; destroy is
\* not wrapped and still runs clean over the list that holds the sentinel.
StepOff(t) ==
    \/ UseCall(t) \/ AddCall(t) \/ FreeCall(t)
    \/ DestroyCall(t) \/ ClDel(t) \/ ClNew(t) \/ ClTest(t) \/ ClSub(t)
    \/ ClRequeue(t) \/ ClLink(t) \/ ClAddback(t) \/ ClRestore(t) \/ ClUnmap(t)
    \/ DestroyXa(t)
    \/ Return(t)

NextOff == \E t \in Threads : StepOff(t)

SpecOff == InitOff /\ [][NextOff]_vars

\* The batch buffer on its own: each thread holds a buffer from
\* iommu_pagecache_unmap_new with room for every page of the table, appends
\* mapped pages that no buffer holds yet, in any order, and flushes it.
\* The pages of the table are mapped and counted in cachesize, their entries
\* already taken out of the indexes by iommu_pagecache_entry_remove.
InitBatch ==
    /\ it_size = ItSize
    /\ mem = [s \in Slots |-> IF s = SENT THEN [NoEntry EXCEPT !.count = 1] ELSE NoEntry]
    /\ allocated = {SENT}
    /\ fifo_add = SENT /\ fifo_del = SENT
    /\ cpupages = [h \in HostPages |-> NULL]
    /\ dmapages = [q \in DmaPages |-> NULL]
    /\ cachesize = it_size
    /\ live = TRUE
    /\ iommu = [q \in DmaPages |-> q < it_size]
    /\ xunmap = [q \in DmaPages |-> 0]
    /\ held = [r \in Ranges |-> 0]
    /\ lv = [t \in Threads |-> [Blank EXCEPT !.op = "batch", !.hasb = TRUE,
                                              !.count = it_size]]
    /\ hist = [s \in Slots |-> IF s = SENT THEN [NoHist EXCEPT !.seq = 1] ELSE NoHist]
    /\ uaf = FALSE /\ early = FALSE /\ uncached = {}
    /\ pc = [t \in Threads |-> "bt_add"]
    /\ calls = [t \in Threads |-> 0]
    /\ fails = 0 /\ directs = 0

\* iommu_pagecache_unmap_add(b, dmapage)
BatchAdd(t) ==
    /\ pc[t] = "bt_add"
    /\ \E q \in DmaPages :
         /\ iommu[q]
         /\ \A u \in Threads : Cover(lv[u].b, q) = 0
         /\ ~Overflows(lv[t].b, q, lv[t].count)
         /\ Set(t, [lv[t] EXCEPT !.b = iommu_pagecache_unmap_add(@, q),
                                 !.dmapage = q, !.removed = @ + 1])
    /\ UNCHANGED <<mem, allocated, cacheVars, envVars, pc, noteVars, uaf,
                   calls, fails, it_size, directs>>

\* iommu_pagecache_unmap(tbl, b)
BatchUnmap(t) ==
    /\ pc[t] = "bt_add"
    /\ iommu_pagecache_unmap(lv[t].b)
    /\ Goto(t, "bt_done")
    /\ UNCHANGED <<lv, mem, allocated, fifo_add, fifo_del, cpupages, dmapages, live,
                   held, noteVars, uaf, calls, fails, it_size, directs>>

NextBatch == \E t \in Threads : BatchAdd(t) \/ BatchUnmap(t)

SpecBatch == InitBatch /\ [][NextBatch]_vars


\* ============================================================== claims
Quiescent == \A t \in Threads : pc[t] = "idle"
Entries == allocated \ {SENT}

\* The entries that add(_, N, d, _) made and that are still cached: in the
\* DMA-page index and claimed by no evictor.
OfAdd(d, N) ==
    {s \in Entries : /\ hist[s].base = d /\ hist[s].np = N /\ hist[s].claimed = 0
                     /\ XaLoad(dmapages, DmaPages, mem[s].dmapage) = s}

AllInserted(d, N) == \A k \in 0..(N - 1) : \E s \in OfAdd(d, N) : mem[s].dmapage = d + k

\* The entries of s's add at the DMA pages [mem[s].dmapage, mem[s].dmapage + m)
SubRange(s, m) ==
    {u \in OfAdd(hist[s].base, hist[s].np) :
        mem[u].dmapage >= mem[s].dmapage /\ mem[u].dmapage < mem[s].dmapage + m}

\* From entry s down the chain of host page p: the first entry that maps p
\* with a direction compatible with dir (NULL: none within fuel links).
RECURSIVE FirstMatch(_, _, _, _)
FirstMatch(s, p, dir, fuel) ==
    IF s = NULL \/ fuel = 0 THEN NULL
    ELSE IF mem[s].cpupage = p /\ DMA_DIR_COMPAT(mem[s].direction, dir) THEN s
    ELSE FirstMatch(mem[s].next_map, p, dir, fuel - 1)

\* Thread t is returning from use(h + j, m, dir), where entry s is the one
\* add(h, N, d, dir) made for host page h + j, all N entries of that add are
\* cached, and j + m <= N.
UseWithin(t, s) ==
    /\ pc[t] = "ret" /\ lv[t].op = "use" /\ lv[t].npages >= 1
    /\ s \in OfAdd(hist[s].base, hist[s].np)
    /\ AllInserted(hist[s].base, hist[s].np)
    /\ mem[s].cpupage = lv[t].p
    /\ mem[s].direction = lv[t].direction
    /\ (mem[s].dmapage - hist[s].base) + lv[t].npages <= hist[s].np

\* use returned s's DMA address and raised the counts of exactly the m
\* entries from s on by one.
GaveRange(t, s) ==
    /\ lv[t].ret = Shl(mem[s].dmapage)
    /\ \A u \in Slots :
         Counts[u] = lv[t].snap[u] + (IF u \in SubRange(s, lv[t].npages) THEN 1 ELSE 0)

\* C1, as stated: after add(h, N, d, dir) whose N insertions all succeeded and
\* none of whose entries was evicted, use(h + j, m, dir) with j + m <= N
\* returns d + j pages and raises the count of exactly those m entries by one.
C1_AnyAddedRangeIsReturned ==
    \A t \in Threads : \A s \in Entries : UseWithin(t, s) => GaveRange(t, s)

\* C1, amended: the same, when the add's entry for host page h + j is the
\* first on that host page's chain whose direction is compatible, i.e. no
\* mapping of the host page that use could take was added after it.
C1_FirstAddedRangeIsReturned ==
    \A t \in Threads : \A s \in Entries :
        (UseWithin(t, s)
           /\ FirstMatch(cpupages[lv[t].p], lv[t].p, lv[t].direction,
                         Cardinality(Slots)) = s)
        => GaveRange(t, s)

\* C1's case: use of the interior tail of a two-page add returned d + 1.
C1_Witness ==
    \E t \in Threads : \E s \in Entries :
        /\ UseWithin(t, s) /\ GaveRange(t, s)
        /\ hist[s].np = 2 /\ mem[s].dmapage = hist[s].base + 1
        /\ lv[t].snap[s] >= 1


\* Thread t is returning from a use that found nothing.
UseFailed(t) ==
    pc[t] = "ret" /\ lv[t].op = "use" /\ lv[t].ret = DMA_MAPPING_ERROR

\* C6: when use fails on a range, every entry's count is the same after the
\* call as before it (every acquisition of the attempt, the one on the first
\* page included, is undone) and use returns NOT_FOUND: a use that returns
\* NOT_FOUND has left all counts as they were at the call, and a use that
\* has changed a count returns an address.
C6_FailedUseKeepsCounts ==
    \A t \in Threads :
        (pc[t] = "ret" /\ lv[t].op = "use")
        => (lv[t].ret = DMA_MAPPING_ERROR <=> Counts = lv[t].snap)

\* C6's case: a two-page use took the first page, found the second one
\* missing, undid the first (i ran up to npages in out_reverse) and failed.
C6_Witness ==
    \E t \in Threads :
        /\ UseFailed(t) /\ lv[t].npages = 2 /\ lv[t].i = 2
        /\ \E s \in Entries : mem[s].cpupage = lv[t].p /\ mem[s].count >= 1
        /\ Counts = lv[t].snap


\* The step is a successful try_acquire of thread t on slot s: use_one in
\* use_range raises its count by one.
Acquires(t, s) ==
    /\ pc[t] \in {"ur_first", "ur_chk"}
    /\ mem'[s].count = mem[s].count + 1

\* C2: no use-after-claim: once an evictor's try_claim on entry e has
\* succeeded (its atomic_sub_return gave -IOMMU_CACHE_REMOVING), no
\* try_acquire on e succeeds in any later step.
C2_NoAcquireAfterClaim ==
    [][\A t \in Threads : \A s \in Slots :
          Acquires(t, s) => hist[s].claimed = 0]_vars


\* Slot s is on the chain that starts at slot e (within fuel links).
RECURSIVE OnChain(_, _, _)
OnChain(e, s, fuel) ==
    IF e = NULL \/ fuel = 0 THEN FALSE
    ELSE e = s \/ OnChain(mem[e].next_map, s, fuel - 1)

InHostIndex(s) ==
    OnChain(XaLoad(cpupages, HostPages, mem[s].cpupage), s, Cardinality(Slots))

InDmaIndex(s) == XaLoad(dmapages, DmaPages, mem[s].dmapage) = s

\* add has stored entry s in both indices: its thread is past both xa_store.
Inserted(s) ==
    /\ s \in Entries /\ hist[s].np > 0
    /\ \A t \in Threads : ~(lv[t].d = s /\ pc[t] \in {"add_dma", "add_cpu"})

\* The chain of host page h is being changed: a thread is inside
\* iommu_pagecache_entry_remove between its xa_erase of the chain head and the
\* end of the republish, or inside add between its xa_store of a new head and
\* the link to the old one.
Republishing(h) ==
    \E t \in Threads :
        /\ pc[t] \in {"er_walk", "er_upd", "upd_erase", "upd_walk", "add_chain"}
        /\ lv[t].d # NULL /\ mem[lv[t].d].cpupage = h

\* C3: an entry whose count is >= 1 (the adder's reference or a use not yet
\* matched by a free) is never removed from either index, never freed and
\* never passed to the external unmap: while the cache is alive, every entry
\* that add inserted and whose count is >= 1 is in the DMA-page index, on its
\* host page's chain (when no thread is changing that chain), and its
\* DMA page is mapped.
C3_InUseEntryStaysIndexed ==
    \A s \in Entries :
        (live /\ Inserted(s) /\ mem[s].count >= 1 /\ ~Republishing(mem[s].cpupage))
        => (InDmaIndex(s) /\ InHostIndex(s) /\ iommu[mem[s].dmapage])


\* C4: each entry is removed from the indices at most once and its DMA page
\* is passed to the external unmap at most once, and only by the thread
\* whose try_claim on that entry observed count 0: no entry goes through
\* iommu_pagecache_entry_remove twice, and the DMA page of an entry that add
\* inserted and no thread has claimed is still mapped, __iommu_free not
\* having been called on it.
C4_UnmappedOnlyByClaimer ==
    /\ \A s \in Slots : hist[s].removed <= 1
    /\ \A s \in Entries :
         (live /\ Inserted(s) /\ InDmaIndex(s) /\ hist[s].claimed = 0)
         => (iommu[mem[s].dmapage] /\ xunmap[mem[s].dmapage] = 0)


\* The positions of a thread inside the loop of iommu_pagecache_clean
InPass == {"cl_test", "cl_sub", "cl_requeue", "cl_link", "cl_addback", "er_erase",
           "er_walk", "er_upd", "upd_erase", "upd_walk", "er_dma"}

\* C5: every call runs to completion and every eviction pass terminates, each
\* in-use entry (the sentinel included) being visited and re-queued at most
\* once per pass: no thread stops in an oops, and no pass puts an entry back
\* on the FIFO that it has already put back (lv[t].i = 1 in a pass).
C5_RequeuedOncePerPass ==
    \A t \in Threads :
        /\ pc[t] # "oops"
        /\ pc[t] \in InPass => lv[t].i = 0


\* A driver holds a mapping that covers DMA page k.
Covered(k) == \E r \in Ranges : held[r] > 0 /\ k >= r[1] /\ k < r[1] + r[2]

\* C7: after add(h, N, d, dir), free(d, N) and destroy, the external unmap
\* has been invoked exactly once for each DMA page of [d, d + N): once
\* destroy has torn the cache down, in a run where every mapping went through
\* add, no DMA page is still mapped unless a driver still holds it, and none
\* was passed to __iommu_free more than once since its add.
C7_FreedPagesUnmappedOnce ==
    (~live /\ "direct" \notin uncached)
    => \A k \in DmaPages : ~Covered(k) => (~iommu[k] /\ xunmap[k] <= 1)


\* Thread t is returning from free(q, N), N >= 1, of DMA pages that were
\* mapped without add, and the call ran no eviction pass.
FreedNeverAdded(t) ==
    /\ pc[t] = "ret" /\ lv[t].op = "free" /\ lv[t].direct
    /\ lv[t].npages >= 1 /\ lv[t].caller = "none"

\* C8: free on a DMA page that was never added to the cache invokes the
\* external unmap exactly once for that page and leaves cache_size and every
\* entry's count unchanged.
C8_NeverAddedPageFreed ==
    \A t \in Threads :
        FreedNeverAdded(t)
        => /\ \A k \in DmaPages :
                (k >= Shr(lv[t].addr) /\ k < Shr(lv[t].addr) + lv[t].npages)
                => (xunmap[k] = 1 /\ ~iommu[k])
           /\ cachesize = lv[t].size
           /\ Counts = lv[t].snap

\* C9: cache_size >= 0 in every reachable state.
C9_CacheSizeNotNegative == cachesize >= 0

\* The DMA pages that have an entry in the DMA-page index: each live entry
\* holds one page.
Cached == {k \in DmaPages : XaLoad(dmapages, DmaPages, k) # NULL}

\* C10: after quiescence (no operation in flight) cache_size equals the
\* number of pages held by live entries in the cache, also after add calls
\* whose insertion stopped early and after free calls on uncached pages.
C10_SizeIsLiveEntries ==
    (Quiescent /\ live) => cachesize = Cardinality(Cached)

\* Thread t takes the step of free that reads cache_size after the decrements
\* and the batch unmap.
LeavesFreeExc(t) == pc[t] = "free_exc" /\ pc'[t] # "free_exc"

\* C11: free triggers eviction exactly when cache_size exceeds max_cache_size:
\* the step after free's decrements starts a pass if and only if
\* cache_size > max_cache_size (none at max_cache_size, one at
\* max_cache_size + 1), and the pass is asked for
\* (cache_size - max_cache_size) + IOMMU_CACHE_THRES pages.
C11_EvictsExactlyWhenExceeding ==
    [][\A t \in Threads :
          LeavesFreeExc(t)
          => /\ (pc'[t] = "cl_del") <=> (cachesize > max_cachesize)
             /\ (pc'[t] # "cl_del") => pc'[t] = "ret"
             /\ (pc'[t] = "cl_del")
                => lv'[t].count = (cachesize - max_cachesize) + IOMMU_CACHE_THRES]_vars

\* C11's case: a free found cache_size = max_cache_size + 1 and its pass,
\* asked for 1 + 128 pages, is about to start.
C11_Witness ==
    \E t \in Threads :
        /\ pc[t] = "cl_del" /\ lv[t].op = "free" /\ lv[t].caller = "free"
        /\ cachesize = max_cachesize + 1
        /\ lv[t].count = 1 + IOMMU_CACHE_THRES

\* Thread t is in a free that started an eviction pass, in a run of
\* single-page mappings where every allocation succeeded and every page freed
\* had been added.
OverfullFree(t) ==
    /\ lv[t].op = "free" /\ lv[t].caller = "free"
    /\ lv[t].npages = 1 /\ ~lv[t].direct
    /\ ~early /\ uncached = {} /\ fails = MaxFail
    /\ \A s \in Slots : hist[s].np <= 1

\* C12: when more single-page mappings are installed than max_cache_size and
\* each is then freed, the eviction comes to an end (no entry visited twice,
\* no freed entry touched) and after it cache_size <= max_cache_size and the
\* external unmap has been invoked exactly (installed - remaining) times:
\* every page still cached is mapped and was never unmapped, every other page
\* is unmapped and was unmapped at most once since it was installed.
C12_EvictionBringsSizeDown ==
    \A t \in Threads :
        OverfullFree(t)
        => /\ pc[t] # "oops" /\ ~uaf
           /\ pc[t] \in InPass => lv[t].i = 0
           /\ pc[t] = "ret"
              => /\ cachesize <= max_cachesize
                 /\ \A k \in DmaPages :
                      IF k \in Cached
                      THEN iommu[k] /\ xunmap[k] = 0
                      ELSE ~iommu[k] /\ xunmap[k] <= 1

\* C13: after destroy (called at quiescence) both the host-page index and
\* the DMA-page index are empty and cache_size = 0, for every prior sequence
\* of add, use and free.
C13_DestroyLeavesNothing ==
    ~live => /\ \A h \in HostPages : cpupages[h] = NULL
             /\ \A k \in DmaPages : dmapages[k] = NULL
             /\ cachesize = 0

\* The step is one of thread t inside add, use or free called with npages = 0.
ZeroPageStep(t) ==
    /\ pc[t] # "idle"
    /\ lv[t].op \in {"add", "use", "free"} /\ lv[t].npages = 0
    /\ pc'[t] # pc[t] \/ lv'[t] # lv[t]

\* C14: npages = 0 is a no-op for all operations: no step of add, use or
\* free called with npages = 0 changes an entry's count, publishes or removes
\* an entry, changes cache_size or invokes the external unmap; use with
\* npages = 0 acquires no reference.
C14_ZeroPagesIsNoOp ==
    [][\A t \in Threads :
          ZeroPageStep(t)
          => /\ Counts' = Counts
             /\ UNCHANGED <<allocated, cpupages, dmapages, cachesize, xunmap>>]_vars

\* The cached entries of host page h: the ones on its chain
MappingsOf(h) == {s \in Entries : InHostIndex(s) /\ mem[s].cpupage = h}

\* Thread t is returning from use(h, N, dir) with N >= 1.
UseDone(t) == pc[t] = "ret" /\ lv[t].op = "use" /\ lv[t].npages >= 1

\* C15: use(h, N, dir) returns a DMA address only if every one of the N
\* entries it acquired has a direction compatible with dir; when every cached
\* mapping of the host page has an incompatible direction it returns
\* NOT_FOUND and changes no count; a one-page request with the direction of a
\* cached mapping of the host page returns the DMA address of a cached
\* mapping of that page.
C15_UseRespectsDirection ==
    \A t \in Threads :
        UseDone(t)
        => /\ lv[t].ret # DMA_MAPPING_ERROR
              => /\ Cardinality(lv[t].seen) = lv[t].npages
                 /\ \A s \in lv[t].seen :
                      DMA_DIR_COMPAT(mem[s].direction, lv[t].direction)
           /\ (\A s \in MappingsOf(lv[t].p) :
                  ~DMA_DIR_COMPAT(mem[s].direction, lv[t].direction))
              => (lv[t].ret = DMA_MAPPING_ERROR /\ Counts = lv[t].snap)
           /\ (lv[t].npages = 1
               /\ \E s \in MappingsOf(lv[t].p) : mem[s].direction = lv[t].direction)
              => \E s \in MappingsOf(lv[t].p) :
                   /\ lv[t].ret = Shl(mem[s].dmapage)
                   /\ DMA_DIR_COMPAT(mem[s].direction, lv[t].direction)

\* C15's case: the host page is cached TO_DEVICE only, the request was
\* FROM_DEVICE, and use returned NOT_FOUND with every count as before.
C15_Witness ==
    \E t \in Threads :
        /\ UseDone(t) /\ lv[t].direction = "FROM_DEVICE"
        /\ MappingsOf(lv[t].p) # {}
        /\ \A s \in MappingsOf(lv[t].p) : mem[s].direction = "TO_DEVICE"
        /\ lv[t].ret = DMA_MAPPING_ERROR /\ Counts = lv[t].snap

\* Slot s is on the FIFO: reached from slot e along the fifo links.
RECURSIVE OnList(_, _, _)
OnList(e, s, fuel) ==
    IF e = NULL \/ fuel = 0 THEN FALSE
    ELSE e = s \/ OnList(mem[e].fifo, s, fuel - 1)

InFifo(s) == OnList(fifo_del, s, Cardinality(Slots) + 1)

\* The entry add(h, N, d, dir) published for offset i, as the caller sees
\* it: in the DMA-page index at d + i, for host page h + i, on that page's
\* chain and on the FIFO, with count 1.
Published(t, i) ==
    LET s == XaLoad(dmapages, DmaPages, lv[t].dmapage + i) IN
      /\ s # NULL /\ s \in allocated /\ s \in lv[t].seen
      /\ mem[s].dmapage = lv[t].dmapage + i
      /\ mem[s].cpupage = lv[t].cpupage + i
      /\ mem[s].direction = lv[t].direction
      /\ mem[s].count = 1
      /\ InHostIndex(s) /\ InFifo(s)

\* Nothing this add made for offset i is left: the entry it allocated for
\* the offset (lv[t].seen holds the call's allocations), if any, is freed and
\* in neither index.
Absent(t, i) ==
    \A s \in lv[t].seen :
        mem[s].dmapage = lv[t].dmapage + i
        => /\ s \notin allocated
           /\ XaLoad(dmapages, DmaPages, lv[t].dmapage + i) # s
           /\ ~InHostIndex(s)

\* C16: add never leaves torn state: when add(h, N, d, dir) returns, for some
\* k <= N exactly the pages at offsets [0, k) are published, each in the
\* DMA-page index, in the host-page chain and in the FIFO with count 1, and
\* the call has left no page at offset >= k in either index (a DMA-page index
\* entry stored before the host-page index failed has been rolled back).
C16_AddPublishesPrefix ==
    \A t \in Threads :
        (pc[t] = "ret" /\ lv[t].op = "add" /\ max_cachesize # 0)
        => \E k \in 0..lv[t].npages :
             /\ \A i \in 0..(k - 1) : Published(t, i)
             /\ \A i \in k..(lv[t].npages - 1) : Absent(t, i)

\* An add of two pages that published the first and gave up on the second
\* after allocating its entry.
C16_Witness ==
    \E t \in Threads :
        /\ pc[t] = "ret" /\ lv[t].op = "add" /\ lv[t].npages = 2 /\ lv[t].i = 1
        /\ Published(t, 0) /\ Absent(t, 1)
        /\ lv[t].d \in lv[t].seen /\ lv[t].d \notin allocated
        /\ mem[lv[t].d].dmapage = lv[t].dmapage + 1

\* ---------------------------------------------------------------- C17
\* add's store into the DMA-page index finds the key occupied
Conflict(t) ==
    /\ pc[t] = "add_dma" /\ pc'[t] # "add_dma"
    /\ dmapages[lv[t].dmapage + lv[t].i] # NULL

\* C17: index conflict on add: when add is given a DMA page that is already
\* present in the DMA-page index, the insertion is aborted and its partial
\* state rolled back; the entry that already owned the DMA page stays the one
\* the index returns and stays allocated, and the new entry is freed.
C17_ConflictAbortsAdd ==
    [][\A t \in Threads :
          Conflict(t)
          => /\ dmapages'[lv[t].dmapage + lv[t].i] = dmapages[lv[t].dmapage + lv[t].i]
             /\ pc'[t] = "ret"
             /\ lv[t].d \notin allocated'
             /\ dmapages[lv[t].dmapage + lv[t].i] \in allocated']_vars

\* ---------------------------------------------------------------- C18
\* Thread t enters add, use or free
Enters(t) == pc[t] = "idle" /\ pc'[t] # "idle" /\ lv'[t].op \in {"add", "use", "free"}

InRange(t, k) == k >= lv'[t].dmapage /\ k < lv'[t].dmapage + lv'[t].npages

\* C18: when the cache is disabled (max_cachesize = 0), add publishes nothing
\* and changes no state of the cache, use returns DMA_MAPPING_ERROR for every
\* input without touching any count, and free forwards the whole
\* (dma_handle, npages) range to the external unmap exactly once.
C18_DisabledCacheIsBypassed ==
    [][\A t \in Threads :
          (max_cachesize = 0 /\ Enters(t))
          => /\ pc'[t] = "ret"
             /\ UNCHANGED <<mem, allocated, cacheVars>>
             /\ Counts' = Counts
             /\ lv'[t].op = "use"
                => lv'[t].ret = DMA_MAPPING_ERROR /\ UNCHANGED <<iommu, xunmap>>
             /\ lv'[t].op = "free"
                => \A k \in DmaPages :
                      IF InRange(t, k)
                      THEN /\ ~iommu'[k]
                           /\ xunmap'[k] = IF lv'[t].direct THEN 1 ELSE xunmap[k] + 1
                      ELSE iommu'[k] = iommu[k] /\ xunmap'[k] = xunmap[k]]_vars

\* With the cache off, a page that was passed to add has been freed: the
\* external unmap ran once for it and the cache is as init left it.
C18_Witness ==
    \E t \in Threads :
        /\ max_cachesize = 0 /\ it_size = 1
        /\ pc[t] = "ret" /\ lv[t].op = "free" /\ ~lv[t].direct /\ lv[t].npages = 1
        /\ ~iommu[0] /\ xunmap[0] = 1
        /\ allocated = {SENT} /\ cachesize = 0
        /\ \A k \in DmaPages : dmapages[k] = NULL

\* ---------------------------------------------------------------- C19
\* Entry s is live: add has published it and no evictor has claimed it.
LiveEntry(s) == Inserted(s) /\ hist[s].claimed = 0

\* C19: in every reachable state, for every live entry e (published by add and
\* not yet claimed by an evictor) the DMA-page index at key e.dmapage yields e,
\* and after e has been removed by the evictor the index at that key no longer
\* yields e.
C19_DmaIndexOwnsLiveEntries ==
    live => \A s \in Slots \ {SENT} :
              /\ LiveEntry(s) => InDmaIndex(s)
              /\ hist[s].removed >= 1 => ~InDmaIndex(s)

\* ---------------------------------------------------------------- C20
\* How often a traversal that starts at slot e and follows next_map comes
\* to slot s (within fuel links).
RECURSIVE Visits(_, _, _)
Visits(e, s, fuel) ==
    IF e = NULL \/ fuel = 0 THEN 0
    ELSE (IF e = s THEN 1 ELSE 0) + Visits(mem[e].next_map, s, fuel - 1)

ChainVisits(h, s) == Visits(XaLoad(cpupages, HostPages, h), s, 2 * Cardinality(Slots))

\* C20: for every live entry e, traversing the chain at
\* cpupages[e.cpupage] visits e exactly once, also when several entries share
\* the host page, when an entry at the head, in the middle or at the tail of
\* the chain is removed, and when an add on the same host page runs
\* concurrently with that removal: whenever no thread is in the middle of
\* changing the chain, every live entry is visited once and no removed entry
\* is visited.
C20_ChainVisitsLiveOnce ==
    live => \A s \in Slots \ {SENT} :
              ~Republishing(mem[s].cpupage)
              => /\ LiveEntry(s) => ChainVisits(mem[s].cpupage, s) = 1
                 /\ (hist[s].removed >= 1 \/ s \notin allocated)
                    => \A h \in HostPages : ~Republishing(h) => ChainVisits(h, s) = 0

\* ---------------------------------------------------------------- C21
\* How often following fifo links from slot e comes to slot s (within fuel
\* links), and whether the walk ends at NULL.
RECURSIVE FifoVisits(_, _, _)
FifoVisits(e, s, fuel) ==
    IF e = NULL \/ fuel = 0 THEN 0
    ELSE (IF e = s THEN 1 ELSE 0) + FifoVisits(mem[e].fifo, s, fuel - 1)

RECURSIVE FifoEnds(_, _)
FifoEnds(e, fuel) ==
    IF e = NULL THEN TRUE
    ELSE IF fuel = 0 THEN FALSE
    ELSE FifoEnds(mem[e].fifo, fuel - 1)

FifoFuel == 2 * Cardinality(Slots)

\* Visits of s on the walk from the del head, or from the add head when the
\* del head does not lead to it.
HeadVisits(s) ==
    IF FifoVisits(fifo_del, s, FifoFuel) > 0
    THEN FifoVisits(fifo_del, s, FifoFuel)
    ELSE FifoVisits(fifo_add, s, FifoFuel)

FifoWellFormed ==
    /\ FifoEnds(fifo_del, FifoFuel)
    /\ \A s \in Slots \ {SENT} :
         /\ LiveEntry(s) => HeadVisits(s) = 1
         /\ s \notin allocated => HeadVisits(s) = 0

\* C21: FIFO well-formedness: at quiescence after any sequence of add, use,
\* free and eviction passes, every live non-sentinel entry is reachable
\* exactly once by following fifo links from the FIFO heads, no freed entry is
\* reachable from them, and following the links from the del head terminates.
C21_FifoWellFormedAtQuiescence == (Quiescent /\ live) => FifoWellFormed

\* ---------------------------------------------------------------- C22
\* C22: concurrent evictors, and an eviction pass running concurrently with
\* add's FIFO append, do not corrupt state: no entry is walked by two passes
\* at once, and at quiescence every live entry can be reached by a later
\* pass (it is on the walk from the del head) and the del half is not empty
\* while live idle entries exist.
C22_PassesKeepFifoUsable ==
    /\ \A t, u \in Threads :
         (t # u /\ pc[t] \in InPass /\ pc[u] \in InPass /\ lv[t].d # NULL)
         => lv[t].d # lv[u].d
    /\ (Quiescent /\ live)
       => \A s \in Slots \ {SENT} :
            LiveEntry(s)
            => /\ FifoVisits(fifo_del, s, FifoFuel) >= 1
               /\ mem[s].count = 0 => fifo_del # NULL

\* ---------------------------------------------------------------- C23
\* The positions where use and free hold an entry pointer loaded from an index
Holding == {"use_test", "use_next", "ur_first", "ur_loop", "ur_chk", "ur_dec", "free_dec"}

\* Thread t takes a step
Steps(t) == pc'[t] # pc[t] \/ lv'[t] # lv[t]

\* C23: no freed entry is ever dereferenced: in any interleaving, a use or
\* free that has loaded an entry pointer from an index, and an eviction pass
\* following fifo links, never reads or updates the count or links of an
\* entry after the evictor that claimed it has freed it.
C23_NoFreedEntryDereferenced ==
    [][\A t \in Threads :
          (Steps(t) /\ pc[t] \in Holding \cup InPass)
          => (Target(t) = NULL \/ Target(t) \in allocated)]_vars

\* ---------------------------------------------------------------- C24
\* Thread t's pass is at an allocated entry whose count, the bias apart, is
\* positive: before the subtraction, and between it and the add-back.
InUseBefore(t) == lv[t].d \in allocated /\ mem[lv[t].d].count > 0
InUseBiased(t) == lv[t].d \in allocated /\ mem[lv[t].d].count + IOMMU_CACHE_REMOVING > 0

KeepsEntries == UNCHANGED <<allocated, cpupages, dmapages, iommu, xunmap, cachesize>>

\* C24: when try_claim fails on an in-use entry (prior count > 0), the
\* evictor restores the count to its prior value plus whatever other threads
\* added or took meanwhile (it subtracts the bias once and adds it back
\* once), leaves the entry in both indices, re-queues it at the add half of
\* the FIFO and continues with the next entry; the entry is neither
\* unmapped nor freed.
C24_FailedClaimRestoresEntry ==
    [][\A t \in Threads :
          /\ (Steps(t) /\ pc[t] = "cl_sub" /\ InUseBefore(t))
             => /\ pc'[t] = "cl_requeue"
                /\ mem'[lv[t].d].count = mem[lv[t].d].count - IOMMU_CACHE_REMOVING
                /\ hist'[lv[t].d].claimed = hist[lv[t].d].claimed
                /\ KeepsEntries
          /\ (Steps(t) /\ pc[t] = "cl_requeue" /\ InUseBiased(t))
             => /\ fifo_add' = lv[t].d
                /\ pc'[t] \in {"cl_link", "cl_addback"}
                /\ mem'[lv[t].d].count = mem[lv[t].d].count
                /\ KeepsEntries
          /\ (Steps(t) /\ pc[t] = "cl_link" /\ InUseBiased(t) /\ pc'[t] # "oops")
             => /\ mem'[lv[t].n].fifo = lv[t].d
                /\ pc'[t] = "cl_addback"
                /\ mem'[lv[t].d].count = mem[lv[t].d].count
                /\ KeepsEntries
          /\ (Steps(t) /\ pc[t] = "cl_addback" /\ InUseBiased(t))
             => /\ mem'[lv[t].d].count = mem[lv[t].d].count + IOMMU_CACHE_REMOVING
                /\ pc'[t] = "cl_test" /\ lv'[t].d = lv[t].tmp
                /\ KeepsEntries]_vars

\* A pass has put an in-use entry back: the entry has its count again, is
\* the newest of the FIFO and is in both indices, its page still mapped.
C24_Witness ==
    \E t \in Threads : \E s \in lv[t].seen \ {SENT} :
        /\ pc[t] = "cl_test" /\ lv[t].hasb
        /\ s \in allocated /\ mem[s].count = 1 /\ fifo_add = s
        /\ InDmaIndex(s) /\ InHostIndex(s) /\ iommu[mem[s].dmapage]

\* ---------------------------------------------------------------- C25
\* Run j of buffer b covers the sentinel's dmapage (-1UL)
CoversSentinel(b) ==
    \E j \in 1..Len(b) : b[j].dmabase <= NoPage /\ NoPage < b[j].dmabase + b[j].size

\* C25: the sentinel entry installed by init is never claimed, removed from
\* the FIFO, freed or unmapped: it stays allocated, no evictor claims it or
\* takes it through iommu_pagecache_entry_remove, its count never reads as
\* claimed, it is in neither index, at quiescence its count is 1, and no
\* eviction pass (the drain in destroy included) puts its dmapage into the
\* buffer it passes to the external unmap.
C25_SentinelIsNeverEvicted ==
    /\ SENT \in allocated
    /\ hist[SENT].claimed = 0 /\ hist[SENT].removed = 0
    /\ mem[SENT].count # -IOMMU_CACHE_REMOVING
    /\ Quiescent => mem[SENT].count = 1
    /\ \A k \in DmaPages : dmapages[k] # SENT
    /\ \A h \in HostPages : ~OnChain(cpupages[h], SENT, Cardinality(Slots))
    /\ \A t \in Threads : ~CoversSentinel(lv[t].b)

\* A pass has come to the sentinel, put it back and gone on to remove an
\* entry behind it.
C25_Witness ==
    \E t \in Threads :
        /\ pc[t] \in {"cl_test", "cl_restore"} /\ SENT \in lv[t].seen
        /\ lv[t].removed >= 1 /\ mem[SENT].count = 1

\* ---------------------------------------------------------------- C26
\* C26: an entry's count equals -IOMMU_CACHE_REMOVING only when an evictor
\* has won try_claim on it: in no interleaving of try_claim's subtract /
\* add-back window with concurrent use and free does an allocated entry that
\* no evictor has claimed show count = -IOMMU_CACHE_REMOVING, the value on
\* which try_acquire fails.
C26_BiasOnlyWhenClaimed ==
    \A s \in allocated \ {SENT} :
        ~iommu_pagecache_use_one(s) => hist[s].claimed # 0

\* ---------------------------------------------------------------- C27
\* Entry u is on the FIFO, live and idle: a pass that came to it would
\* remove it.
IdleLive(u) ==
    /\ u \in allocated \ {SENT} /\ LiveEntry(u)
    /\ mem[u].count = 0 /\ hist[u].seq > 0

\* Thread t's pass has just claimed the entry it is at.
JustClaimed(t) ==
    /\ pc[t] = "er_erase" /\ lv[t].d \in allocated
    /\ hist[lv[t].d].claimed = t /\ hist[lv[t].d].seq > 0

\* C27: eviction is FIFO by insertion order: in a single-threaded run, the
\* entry a pass removes is the one put on the FIFO earliest among the idle
\* entries still cached (an entry re-queued after a failed claim counting as
\* inserted when it was re-queued), so that a pass which removes fewer
\* entries than are idle removes the earliest ones.
C27_EvictsEarliestIdleFirst ==
    \A t \in Threads :
        JustClaimed(t) => \A u \in Slots : IdleLive(u) => hist[u].seq > hist[lv[t].d].seq

\* A pass stops after one removal, its count reached, with an idle entry
\* left for later at the head of what it did not walk.
C27_Witness ==
    \E t \in Threads :
        /\ pc[t] = "cl_restore" /\ lv[t].removed = 1 /\ lv[t].count <= 1
        /\ lv[t].tmp # NULL /\ IdleLive(lv[t].tmp)

\* ---------------------------------------------------------------- C28
\* What a pass must leave alone when it cannot get its buffer
PassKeeps ==
    UNCHANGED <<mem, allocated, fifo_add, cpupages, dmapages, cachesize, iommu, xunmap, hist>>

\* Thread t's pass detaches the del half; it fails to get its buffer.
Detaches(t) == pc[t] = "cl_del" /\ pc'[t] = "cl_new"
NoBuffer(t) == pc[t] = "cl_new" /\ pc'[t] \notin {"cl_new", "cl_test"}

\* C28: when the batch buffer cannot be allocated during an eviction pass,
\* the pass returns with the state unchanged: the detached del half is
\* re-attached exactly as it was (the pass holds the head it took, and puts
\* that head back), no entry's count is modified, no entry is removed from
\* an index, cachesize is unchanged and no external unmap is invoked.
C28_NoBufferLeavesStateUnchanged ==
    [][\A t \in Threads :
          /\ Detaches(t) => (lv'[t].n = fifo_del /\ fifo_del' = NULL /\ PassKeeps)
          /\ NoBuffer(t)
             => /\ fifo_del' = lv[t].n /\ lv'[t].n = lv[t].n
                /\ pc'[t] = IF lv[t].caller = "destroy" THEN "destroy_xa" ELSE "ret"
                /\ PassKeeps]_vars

\* free's pass came back without a buffer: the cache is still over its
\* limit, and the del head is the one the pass had taken.
C28_Witness ==
    \E t \in Threads :
        /\ pc[t] = "ret" /\ lv[t].op = "free" /\ lv[t].caller = "free" /\ ~lv[t].hasb
        /\ lv[t].n # NULL /\ fifo_del = lv[t].n
        /\ cachesize > max_cachesize
        /\ \E s \in Slots : IdleLive(s)

\* ---------------------------------------------------------------- C29
\* Thread t's free finds its page uncached and gets no batch buffer: it
\* unmaps directly and goes on to the next page.
Fallback(t) ==
    /\ pc[t] = "free_loop" /\ pc'[t] = "free_loop"
    /\ lv'[t].dmapage = lv[t].dmapage + 1 /\ ~lv'[t].hasb

\* C29: when the batch buffer cannot be allocated during free, free falls
\* back to a per-page unmap: the uncached DMA page it is at is passed to the
\* external unmap once, and no other page (none outside the requested range,
\* no cached page, no page of the range a second time) is unmapped.
C29_FallbackUnmapsOnePage ==
    [][\A t \in Threads :
          Fallback(t)
          => \A k \in DmaPages :
                xunmap'[k] = xunmap[k] + (IF k = lv[t].dmapage THEN 1 ELSE 0)]_vars

\* ---------------------------------------------------------------- C30
\* The runs of b are well formed: none is empty and no page lies in two.
RunsExact(b) ==
    /\ \A j \in 1..Len(b) : b[j].size >= 1
    /\ \A k \in DmaPages : Cover(b, k) <= 1

BatchPages(b) == {k \in DmaPages : Cover(b, k) > 0}

\* Thread t's step appends page q to its batch buffer (free's loop, line 776,
\* clean after entry_remove, line 729, or the buffer on its own).
Appending(t, q) ==
    \/ /\ pc[t] = "free_loop" /\ lv'[t].hasb
       /\ lv'[t].dmapage = lv[t].dmapage + 1 /\ q = lv[t].dmapage
    \/ /\ pc[t] = "er_dma" /\ pc'[t] # "er_dma"
       /\ lv[t].d # NULL /\ q = mem[lv[t].d].dmapage
    \/ /\ pc[t] = "bt_add" /\ lv'[t].removed = lv[t].removed + 1
       /\ q = lv'[t].dmapage

\* Thread t's step hands its batch buffer to iommu_pagecache_unmap.
Flushing(t) ==
    \/ pc[t] = "cl_unmap" /\ pc'[t] # "cl_unmap"
    \/ pc[t] = "free_flush" /\ pc'[t] # "free_flush" /\ lv[t].hasb
    \/ pc[t] = "bt_add" /\ pc'[t] = "bt_done"

\* b2 is b with page q appended as the claim prescribes.
ExactAppend(b, b2, q) ==
    /\ RunsExact(b2)
    /\ \A k \in DmaPages : Cover(b2, k) = Cover(b, k) + (IF k = q THEN 1 ELSE 0)
    /\ Freed(b2, Len(b2)) = Freed(b, Len(b)) + 1
    /\ IF \E j \in 1..Len(b) : b[j].dmabase + b[j].size = q
       THEN /\ Len(b2) = Len(b)
            /\ \E j \in 1..Len(b) :
                  /\ b[j].dmabase + b[j].size = q
                  /\ b2 = [b EXCEPT ![j].size = @ + 1]
       ELSE b2 = Append(b, [dmabase |-> q, size |-> 1])

\* C30: coalescing is exact.  Appending a page q that the buffer does not hold
\* yet to well-formed runs leaves well-formed (contiguous, pairwise disjoint)
\* runs whose union is the old union plus q and whose total length grew by
\* one; q extends a run iff some run has dma_base + length = q, otherwise it
\* starts a run of length 1.  Flushing well-formed runs passes each of their
\* pages to the external unmap exactly once and lowers cache_size by the
\* number of pages appended.
C30_CoalescingIsExact ==
    [][\A t \in Threads :
          /\ \A q \in DmaPages :
                (Appending(t, q) /\ RunsExact(lv[t].b) /\ Cover(lv[t].b, q) = 0)
                => ExactAppend(lv[t].b, lv'[t].b, q)
          /\ (Flushing(t) /\ RunsExact(lv[t].b))
                => /\ \A k \in DmaPages :
                        xunmap'[k] = xunmap[k] + (IF k \in BatchPages(lv[t].b) THEN 1 ELSE 0)
                   /\ cachesize' = cachesize - Cardinality(BatchPages(lv[t].b))
          /\ pc[t] = "bt_add"
                => /\ RunsExact(lv[t].b)
                   /\ Cardinality(BatchPages(lv[t].b)) = lv[t].removed]_vars

\* A buffer was flushed that got pages 0, 2 and 1 in that order: page 1
\* extended the run before the last one, and each page was unmapped once.
C30_Witness ==
    \E t \in Threads :
        /\ pc[t] = "bt_done" /\ lv[t].removed = 3
        /\ lv[t].b = <<[dmabase |-> 0, size |-> 2], [dmabase |-> 2, size |-> 1]>>
        /\ \A k \in 0..2 : xunmap[k] = 1 /\ ~iommu[k]

=============================================================================
